---- MODULE Spec2Model ----
(***************************************************************************)
(* Model of safehttp/plugins/xsrf/xsrf.go: the XSRF interceptor with its   *)
(* Default (HMAC token bound to session cookie and path) and Angular       *)
(* (cookie echoed in a header) strategies.                                 *)
(*                                                                         *)
(* Strings are modelled as TLA+ strings.  Values that Go reports through   *)
(* an error or an absent map key are modelled by the sentinels Absent and  *)
(* Missing, which are not values a client can send.                        *)
(***************************************************************************)
EXTENDS Integers, Sequences, FiniteSets, TLC

(***************************************************************************)
(* Bounds of the model                                                     *)
(***************************************************************************)
\* The clock runs over 0..MaxTime; one tick is half the token lifetime.
MaxTime == 2

\* The number of requests served at the same time.
NumReqs == 2

\* The number of tokens whose issuance is followed.
MaxIssued == 2

Times == 0 .. MaxTime

(***************************************************************************)
(* Value universes the inputs are drawn from                               *)
(***************************************************************************)
Keys == {"k1", "k2"}

\* Identifiers the random source can produce (base64 of 20 random bytes).
SessionIDs == {"s1", "s2"}

\* Cookie values a client can send: a cookie with an empty value parses.
CookieValues == {""} \cup SessionIDs

Paths == {"/a", "/b"}

Methods == {"GET", "HEAD", "OPTIONS", "POST", "DELETE"}

CookieNames == {"xsrf-cookie", "XSRF-TOKEN"}

HeaderNames == {"X-XSRF-TOKEN"}

FormKeys == {"xsrf-token"}

Bodies == {"urlencoded", "multipart", "other"}

Absent == "<absent>"

Missing == "<missing>"

(***************************************************************************)
(* safehttp status codes                                                   *)
(***************************************************************************)
StatusOK == 200

StatusBadRequest == 400

StatusUnauthorized == 401

StatusForbidden == 403

StatusInternalServerError == 500

(***************************************************************************)
(* xsrftoken: the HMAC token codec                                         *)
(***************************************************************************)
\* Lifetime of a token, in ticks.
Timeout == 2

\* The token is the MAC over (key, userID, actionID, issue time) followed by
\* the issue time.  The MAC is kept symbolic: distinct inputs give distinct
\* strings, and only a holder of the key can build it.
generateTokenAtTime(key, userID, actionID, t) ==
    "hmac(" \o key \o "," \o userID \o "," \o actionID \o "," \o ToString(t)
        \o "):" \o ToString(t)

\* Valid extracts the issue time carried by the token, rejects a token that
\* has expired or is from the future, recomputes the token for that issue
\* time and compares.  A string that is not of the form mac:time is rejected.
validTokenAtTime(token, key, userID, actionID, t) ==
    \E issue \in Times :
        /\ t - issue < Timeout
        /\ issue <= t
        /\ token = generateTokenAtTime(key, userID, actionID, issue)

\* Token strings a request can carry: nothing, a malformed string, or a
\* well-formed token for any key, user, action and issue time.
Tokens ==
    {"", "garbage"} \cup
    {generateTokenAtTime(k, s, p, t) :
        k \in Keys, s \in CookieValues, p \in Paths, t \in Times}

(***************************************************************************)
(* safehttp: cookies, requests, forms, response writer                     *)
(***************************************************************************)
NoCookie ==
    [name |-> Absent, value |-> Absent, sameSite |-> "", path |-> "",
     maxAge |-> 0, httpOnly |-> FALSE]

\* A cookie read from the request's Cookie header: only name and value.
ParsedCookie(name, value) ==
    [name |-> name, value |-> value, sameSite |-> "", path |-> "",
     maxAge |-> 0, httpOnly |-> FALSE]

\* safehttp.NewCookie: HTTP-only, SameSite=Lax until changed.
NewCookie(name, value) ==
    [name |-> name, value |-> value, sameSite |-> "Lax", path |-> "",
     maxAge |-> 0, httpOnly |-> TRUE]

SetSameSite(c, mode) == [c EXCEPT !.sameSite = mode]

SetPath(c, p) == [c EXCEPT !.path = p]

SetMaxAge(c, n) == [c EXCEPT !.maxAge = n]

DisableHTTPOnly(c) == [c EXCEPT !.httpOnly = FALSE]

\* r.Cookie(name): the named cookie, or an error when the request has none.
Cookie(r, name) ==
    IF name \in DOMAIN r.cookies /\ r.cookies[name] # Absent
    THEN [err |-> FALSE, c |-> ParsedCookie(name, r.cookies[name])]
    ELSE [err |-> TRUE, c |-> NoCookie]

NoForm == [values |-> [k \in FormKeys |-> Missing], err |-> FALSE]

\* r.PostForm(): succeeds on a URL-encoded body.
PostForm(r) ==
    IF r.body = "urlencoded"
    THEN [err |-> FALSE, form |-> [values |-> r.form, err |-> FALSE]]
    ELSE [err |-> TRUE, form |-> NoForm]

\* r.MultipartForm(maxMemory): succeeds on a multipart body.
MultipartForm(r) ==
    IF r.body = "multipart"
    THEN [err |-> FALSE, form |-> [values |-> r.form, err |-> FALSE]]
    ELSE [err |-> TRUE, form |-> NoForm]

\* f.String(key, default): the field's value, the default when not there.
FormString(f, key, default) ==
    IF key \in DOMAIN f.values /\ f.values[key] # Missing
    THEN f.values[key]
    ELSE default

\* f.Err(): the error a typed accessor has recorded on the form.
FormErr(f) == f.err

\* r.Header.Get(name): "" when the header is not there.
HeaderGet(r, name) ==
    IF name \in DOMAIN r.header THEN r.header[name] ELSE ""

\* A response writer nothing has been written to.
NewResponseWriter == [written |-> FALSE, status |-> 0, cookies |-> <<>>]

\* w.WriteError(code): the response is the error status.
WriteError(w, code) == [w EXCEPT !.written = TRUE, !.status = code]

\* w.SetCookie(c) when it succeeds: a Set-Cookie header is added.
SetCookie(w, c) == [w EXCEPT !.cookies = Append(@, c)]

(***************************************************************************)
(* xsrf.go                                                                 *)
(***************************************************************************)
\* Variant: OPTIONS left out of the map.
statePreservingMethodsNoOptions == [m \in {"GET", "HEAD"} |-> TRUE]

statePreservingMethods == [m \in {"GET", "HEAD", "OPTIONS"} |-> TRUE]

\* Go map lookup: false for a key that is not in the map.
IsStatePreserving(m) ==
    m \in DOMAIN statePreservingMethods /\ statePreservingMethods[m]

defaultGenerator(key, cookieIDKey) ==
    [type |-> "defaultGenerator", secretAppKey |-> key,
     cookieIDKey |-> cookieIDKey, tokenCookieName |-> ""]

angularGenerator(cookieName) ==
    [type |-> "angularGenerator", secretAppKey |-> "",
     cookieIDKey |-> "", tokenCookieName |-> cookieName]

defaultChecker(key, cookieIDKey, tokenKey) ==
    [type |-> "defaultChecker", secretAppKey |-> key,
     cookieIDKey |-> cookieIDKey, tokenKey |-> tokenKey,
     tokenCookieName |-> "", tokenHeaderName |-> ""]

angularChecker(cookieName, headerName) ==
    [type |-> "angularChecker", secretAppKey |-> "",
     cookieIDKey |-> "", tokenKey |-> "",
     tokenCookieName |-> cookieName, tokenHeaderName |-> headerName]

defaultInjector == [type |-> "defaultInjector"]

angularInjector == [type |-> "angularInjector"]

New(key, g, c, i) == [secretAppKey |-> key, g |-> g, c |-> c, i |-> i]

\* Variant: the checker's key is left unset.
DefaultCheckerKeyUnset(key) ==
    [secretAppKey |-> key,
     g |-> defaultGenerator(key, "xsrf-cookie"),
     c |-> defaultChecker("", "xsrf-cookie", "xsrf-token"),
     i |-> defaultInjector]

Default(key) ==
    [secretAppKey |-> key,
     g |-> defaultGenerator(key, "xsrf-cookie"),
     c |-> defaultChecker(key, "xsrf-cookie", "xsrf-token"),
     i |-> defaultInjector]

Angular(cookieName, headerName) ==
    [secretAppKey |-> "",
     g |-> angularGenerator(cookieName),
     c |-> angularChecker(cookieName, headerName),
     i |-> angularInjector]

\* Variant: any non-empty token is accepted, validation skipped.
defaultCheckerCheckNoValidation(c, r, t) ==
    IF IsStatePreserving(r.method) THEN StatusOK
    ELSE
    LET cookie == Cookie(r, c.cookieIDKey) IN
    IF cookie.err THEN StatusForbidden
    ELSE
    LET pf == PostForm(r)
        mf == MultipartForm(r)
    IN
    IF pf.err /\ mf.err THEN StatusBadRequest
    ELSE
    LET f == IF pf.err THEN mf.form ELSE pf.form
        tok == FormString(f, c.tokenKey, "")
    IN
    IF FormErr(f) \/ tok = "" THEN StatusUnauthorized
    ELSE StatusOK

\* Variant: the form is parsed before the cookie is looked up.
defaultCheckerCheckFormFirst(c, r, t) ==
    IF IsStatePreserving(r.method) THEN StatusOK
    ELSE
    LET pf == PostForm(r)
        mf == MultipartForm(r)
    IN
    IF pf.err /\ mf.err THEN StatusBadRequest
    ELSE
    LET cookie == Cookie(r, c.cookieIDKey) IN
    IF cookie.err THEN StatusForbidden
    ELSE
    LET f == IF pf.err THEN mf.form ELSE pf.form
        tok == FormString(f, c.tokenKey, "")
    IN
    IF FormErr(f) \/ tok = "" THEN StatusUnauthorized
    ELSE IF ~validTokenAtTime(tok, c.secretAppKey, cookie.c.value, r.path, t)
    THEN StatusForbidden
    ELSE StatusOK

\* Variant: an empty token is handed to validation like any other.
defaultCheckerCheckEmptyValidated(c, r, t) ==
    IF IsStatePreserving(r.method) THEN StatusOK
    ELSE
    LET cookie == Cookie(r, c.cookieIDKey) IN
    IF cookie.err THEN StatusForbidden
    ELSE
    LET pf == PostForm(r)
        mf == MultipartForm(r)
    IN
    IF pf.err /\ mf.err THEN StatusBadRequest
    ELSE
    LET f == IF pf.err THEN mf.form ELSE pf.form
        tok == FormString(f, c.tokenKey, "")
    IN
    IF ~validTokenAtTime(tok, c.secretAppKey, cookie.c.value, r.path, t)
    THEN StatusForbidden
    ELSE StatusOK

\* Variant: a token that fails validation is answered Unauthorized.
defaultCheckerCheckInvalidUnauthorized(c, r, t) ==
    IF IsStatePreserving(r.method) THEN StatusOK
    ELSE
    LET cookie == Cookie(r, c.cookieIDKey) IN
    IF cookie.err THEN StatusForbidden
    ELSE
    LET pf == PostForm(r)
        mf == MultipartForm(r)
    IN
    IF pf.err /\ mf.err THEN StatusBadRequest
    ELSE
    LET f == IF pf.err THEN mf.form ELSE pf.form
        tok == FormString(f, c.tokenKey, "")
    IN
    IF FormErr(f) \/ tok = "" THEN StatusUnauthorized
    ELSE IF ~validTokenAtTime(tok, c.secretAppKey, cookie.c.value, r.path, t)
    THEN StatusUnauthorized
    ELSE StatusOK

\* Variant: no fallback to the multipart form.
defaultCheckerCheckNoMultipart(c, r, t) ==
    IF IsStatePreserving(r.method) THEN StatusOK
    ELSE
    LET cookie == Cookie(r, c.cookieIDKey) IN
    IF cookie.err THEN StatusForbidden
    ELSE
    LET pf == PostForm(r)
        mf == MultipartForm(r)
    IN
    IF pf.err THEN StatusBadRequest
    ELSE
    LET f == IF pf.err THEN mf.form ELSE pf.form
        tok == FormString(f, c.tokenKey, "")
    IN
    IF FormErr(f) \/ tok = "" THEN StatusUnauthorized
    ELSE IF ~validTokenAtTime(tok, c.secretAppKey, cookie.c.value, r.path, t)
    THEN StatusForbidden
    ELSE StatusOK

\* Variant: the token is validated for the path, but for any session
\* identifier instead of the one of the request's cookie.
defaultCheckerCheckAnySession(c, r, t) ==
    IF IsStatePreserving(r.method) THEN StatusOK
    ELSE
    LET cookie == Cookie(r, c.cookieIDKey) IN
    IF cookie.err THEN StatusForbidden
    ELSE
    LET pf == PostForm(r)
        mf == MultipartForm(r)
    IN
    IF pf.err /\ mf.err THEN StatusBadRequest
    ELSE
    LET f == IF pf.err THEN mf.form ELSE pf.form
        tok == FormString(f, c.tokenKey, "")
    IN
    IF FormErr(f) \/ tok = "" THEN StatusUnauthorized
    ELSE IF \A s \in CookieValues :
                ~validTokenAtTime(tok, c.secretAppKey, s, r.path, t)
    THEN StatusForbidden
    ELSE StatusOK

defaultCheckerCheck(c, r, t) ==
    IF IsStatePreserving(r.method) THEN StatusOK
    ELSE
    LET cookie == Cookie(r, c.cookieIDKey) IN
    IF cookie.err THEN StatusForbidden
    ELSE
    LET pf == PostForm(r)
        mf == MultipartForm(r)
    IN
    IF pf.err /\ mf.err THEN StatusBadRequest
    ELSE
    LET f == IF pf.err THEN mf.form ELSE pf.form
        tok == FormString(f, c.tokenKey, "")
    IN
    IF FormErr(f) \/ tok = "" THEN StatusUnauthorized
    ELSE IF ~validTokenAtTime(tok, c.secretAppKey, cookie.c.value, r.path, t)
    THEN StatusForbidden
    ELSE StatusOK

\* Variant: the header is only required to be non-empty.
angularCheckerCheckNoCompare(c, r) ==
    IF IsStatePreserving(r.method) THEN StatusOK
    ELSE
    LET cookie == Cookie(r, c.tokenCookieName) IN
    IF cookie.err THEN StatusForbidden
    ELSE
    LET tok == HeaderGet(r, c.tokenHeaderName) IN
    IF tok = "" THEN StatusUnauthorized
    ELSE StatusOK

\* Variant: the header is only compared, not tested for being empty.
angularCheckerCheckNoEmptyTest(c, r) ==
    IF IsStatePreserving(r.method) THEN StatusOK
    ELSE
    LET cookie == Cookie(r, c.tokenCookieName) IN
    IF cookie.err THEN StatusForbidden
    ELSE
    LET tok == HeaderGet(r, c.tokenHeaderName) IN
    IF tok # cookie.c.value THEN StatusUnauthorized
    ELSE StatusOK

\* Variant: a header that differs from the cookie is answered Forbidden.
angularCheckerCheckMismatchForbidden(c, r) ==
    IF IsStatePreserving(r.method) THEN StatusOK
    ELSE
    LET cookie == Cookie(r, c.tokenCookieName) IN
    IF cookie.err THEN StatusForbidden
    ELSE
    LET tok == HeaderGet(r, c.tokenHeaderName) IN
    IF tok = "" THEN StatusUnauthorized
    ELSE IF tok # cookie.c.value THEN StatusForbidden
    ELSE StatusOK

angularCheckerCheck(c, r) ==
    IF IsStatePreserving(r.method) THEN StatusOK
    ELSE
    LET cookie == Cookie(r, c.tokenCookieName) IN
    IF cookie.err THEN StatusForbidden
    ELSE
    LET tok == HeaderGet(r, c.tokenHeaderName) IN
    IF tok = "" \/ tok # cookie.c.value THEN StatusUnauthorized
    ELSE StatusOK

\* it.c.Check(r): dispatch on the configured Checker.
Check(c, r, t) ==
    IF c.type = "defaultChecker" THEN defaultCheckerCheck(c, r, t)
    ELSE angularCheckerCheck(c, r)

(***************************************************************************)
(* Generated data, the random source, responses                            *)
(***************************************************************************)
\* The nil GeneratedData returned next to an error.
NilData == [type |-> "nil"]

\* crypto/rand.Read: an error, or 20 fresh bytes (their base64 encoding).
RandOutcomes ==
    {[err |-> TRUE, id |-> Absent]} \cup
    {[err |-> FALSE, id |-> s] : s \in SessionIDs}

FuncNames == {"XSRFToken", "CSPNonce"}

\* The responses an application handler hands to the commit phase: one that
\* is not template-backed, and template responses with a function map.
NoFuncMap == [n \in FuncNames |-> Missing]

NoResponse == [type |-> "none", FuncMap |-> NoFuncMap]

Responses ==
    {[type |-> "JSONResponse", FuncMap |-> NoFuncMap],
     [type |-> "TemplateResponse",
      FuncMap |-> [NoFuncMap EXCEPT !["CSPNonce"] = "nonce"]],
     [type |-> "TemplateResponse",
      FuncMap |-> [NoFuncMap EXCEPT !["XSRFToken"] = "stub"]]}

\* Variant: the cookie is marked for setting on every request.
defaultGeneratorGenerateAlwaysSet(g, r, t, rnd) ==
    LET ck == Cookie(r, g.cookieIDKey) IN
    IF ck.err /\ rnd.err
    THEN [err |-> "crypto/rand.Read", data |-> NilData]
    ELSE
    LET c == IF ck.err
             THEN SetSameSite(NewCookie(g.cookieIDKey, rnd.id), "Strict")
             ELSE ck.c
        tok == generateTokenAtTime(g.secretAppKey, c.value, r.path, t)
    IN [err |-> "nil",
        data |-> [type |-> "defaultData", cookieID |-> c, token |-> tok,
                  setCookie |-> TRUE]]

\* Variant: the token is derived from the cookie lookup's result, not from
\* the cookie that was minted.
defaultGeneratorGenerateStaleCookie(g, r, t, rnd) ==
    LET ck == Cookie(r, g.cookieIDKey) IN
    IF ck.err /\ rnd.err
    THEN [err |-> "crypto/rand.Read", data |-> NilData]
    ELSE
    LET c == IF ck.err
             THEN SetSameSite(NewCookie(g.cookieIDKey, rnd.id), "Strict")
             ELSE ck.c
        tok == generateTokenAtTime(g.secretAppKey, ck.c.value, r.path, t)
    IN [err |-> "nil",
        data |-> [type |-> "defaultData", cookieID |-> c, token |-> tok,
                  setCookie |-> ck.err]]

\* Variant: the minted cookie keeps the SameSite mode NewCookie gave it.
defaultGeneratorGenerateNoSameSite(g, r, t, rnd) ==
    LET ck == Cookie(r, g.cookieIDKey) IN
    IF ck.err /\ rnd.err
    THEN [err |-> "crypto/rand.Read", data |-> NilData]
    ELSE
    LET c == IF ck.err THEN NewCookie(g.cookieIDKey, rnd.id) ELSE ck.c
        tok == generateTokenAtTime(g.secretAppKey, c.value, r.path, t)
    IN [err |-> "nil",
        data |-> [type |-> "defaultData", cookieID |-> c, token |-> tok,
                  setCookie |-> ck.err]]

defaultGeneratorGenerate(g, r, t, rnd) ==
    LET ck == Cookie(r, g.cookieIDKey) IN
    IF ck.err /\ rnd.err
    THEN [err |-> "crypto/rand.Read", data |-> NilData]
    ELSE
    LET c == IF ck.err
             THEN SetSameSite(NewCookie(g.cookieIDKey, rnd.id), "Strict")
             ELSE ck.c
        tok == generateTokenAtTime(g.secretAppKey, c.value, r.path, t)
    IN [err |-> "nil",
        data |-> [type |-> "defaultData", cookieID |-> c, token |-> tok,
                  setCookie |-> ck.err]]

\* Variant: a new identifier is minted on every request.
angularGeneratorGenerateAlwaysMint(g, r, rnd) ==
    IF rnd.err
    THEN [err |-> "crypto/rand.Read", data |-> NilData]
    ELSE
    LET c == DisableHTTPOnly(SetMaxAge(SetPath(SetSameSite(
                 NewCookie(g.tokenCookieName, rnd.id),
                 "Strict"), "/"), 86400))
    IN [err |-> "nil",
        data |-> [type |-> "angularData", tokCookie |-> c,
                  setCookie |-> TRUE]]

angularGeneratorGenerate(g, r, rnd) ==
    LET ck == Cookie(r, g.tokenCookieName) IN
    IF ck.err /\ rnd.err
    THEN [err |-> "crypto/rand.Read", data |-> NilData]
    ELSE
    LET c == IF ck.err
             THEN DisableHTTPOnly(SetMaxAge(SetPath(SetSameSite(
                      NewCookie(g.tokenCookieName, rnd.id),
                      "Strict"), "/"), 86400))
             ELSE ck.c
    IN [err |-> "nil",
        data |-> [type |-> "angularData", tokCookie |-> c,
                  setCookie |-> ck.err]]

\* it.g.Generate(r): dispatch on the configured Generator.
Generate(g, r, t, rnd) ==
    IF g.type = "defaultGenerator" THEN defaultGeneratorGenerate(g, r, t, rnd)
    ELSE angularGeneratorGenerate(g, r, rnd)

\* scOK: whether w.SetCookie succeeds if it is called.
\* Variant: the token is bound before the cookie is set.
defaultInjectorInjectBindFirst(resp, w, data, scOK) ==
    IF data.type # "defaultData"
    THEN [err |-> "invalid data received", w |-> w, resp |-> resp]
    ELSE
    LET resp1 == IF resp.type # "TemplateResponse" THEN resp
                 ELSE [resp EXCEPT !.FuncMap["XSRFToken"] = data.token]
    IN
    IF data.setCookie /\ ~scOK
    THEN [err |-> "SetCookie", w |-> w, resp |-> resp1]
    ELSE
    LET w1 == IF data.setCookie THEN SetCookie(w, data.cookieID) ELSE w IN
    [err |-> "nil", w |-> w1, resp |-> resp1]

\* Variant: the function map is replaced by one holding only the token.
defaultInjectorInjectReplaceMap(resp, w, data, scOK) ==
    IF data.type # "defaultData"
    THEN [err |-> "invalid data received", w |-> w, resp |-> resp]
    ELSE IF data.setCookie /\ ~scOK
    THEN [err |-> "SetCookie", w |-> w, resp |-> resp]
    ELSE
    LET w1 == IF data.setCookie THEN SetCookie(w, data.cookieID) ELSE w IN
    IF resp.type # "TemplateResponse"
    THEN [err |-> "nil", w |-> w1, resp |-> resp]
    ELSE [err |-> "nil", w |-> w1,
          resp |-> [resp EXCEPT !.FuncMap =
                       [NoFuncMap EXCEPT !["XSRFToken"] = data.token]]]

defaultInjectorInject(resp, w, data, scOK) ==
    IF data.type # "defaultData"
    THEN [err |-> "invalid data received", w |-> w, resp |-> resp]
    ELSE IF data.setCookie /\ ~scOK
    THEN [err |-> "SetCookie", w |-> w, resp |-> resp]
    ELSE
    LET w1 == IF data.setCookie THEN SetCookie(w, data.cookieID) ELSE w IN
    IF resp.type # "TemplateResponse"
    THEN [err |-> "nil", w |-> w1, resp |-> resp]
    ELSE [err |-> "nil", w |-> w1,
          resp |-> [resp EXCEPT !.FuncMap["XSRFToken"] = data.token]]

angularInjectorInject(resp, w, data, scOK) ==
    IF data.type # "angularData"
    THEN [err |-> "invalid data received", w |-> w, resp |-> resp]
    ELSE IF data.setCookie /\ ~scOK
    THEN [err |-> "SetCookie", w |-> w, resp |-> resp]
    ELSE
    LET w1 == IF data.setCookie THEN SetCookie(w, data.tokCookie) ELSE w IN
    [err |-> "nil", w |-> w1, resp |-> resp]

\* it.i.Inject(resp, w, data): dispatch on the configured Injector.
Inject(i, resp, w, data, scOK) ==
    IF i.type = "defaultInjector"
    THEN defaultInjectorInject(resp, w, data, scOK)
    ELSE angularInjectorInject(resp, w, data, scOK)

(***************************************************************************)
(* State                                                                   *)
(***************************************************************************)
VARIABLES
    it,       \* the Interceptor: secretAppKey, g, c, i
    now,      \* the clock xsrftoken reads
    jar,      \* the client's cookie jar: cookie name -> value or Absent
    page,     \* what the client holds from the last page it was served
    r,        \* the request being processed
    w,        \* its ResponseWriter
    resp,     \* the Response the handler passed to the commit phase
    resp0,    \* that Response as the handler built it
    data,     \* the GeneratedData of Commit
    code,     \* the status Check returned in Before
    err,      \* the error Commit got from Generate or Inject
    ret,      \* what the last hook returned
    handled,  \* whether the application handler ran for r
    pc,       \* where r is in the pipeline
    reqs,     \* the requests in flight when several are served at once
    issued    \* the tokens Generate has derived so far, with what for

vars ==
    <<it, now, jar, page, r, w, resp, resp0, data, code, err, ret, handled,
      pc, reqs, issued>>

EmptyJar == [n \in CookieNames |-> Absent]

NoPage == [token |-> Missing, path |-> "", cookie |-> Absent, time |-> 0]

NoRequest ==
    [method |-> "", path |-> "", cookies |-> EmptyJar, body |-> "other",
     form |-> [k \in FormKeys |-> Missing],
     header |-> [h \in HeaderNames |-> ""]]

\* Every request over the value universes.  A body that is no form has no
\* fields.
Requests ==
    {q \in [method : Methods, path : Paths,
            cookies : [CookieNames -> CookieValues \cup {Absent}],
            body : Bodies,
            form : [FormKeys -> Tokens \cup {Missing}],
            header : [HeaderNames -> CookieValues]] :
        q.body = "other" => q.form = NoRequest.form}

\* The interceptors the model is run with: the two convenience constructors
\* and two custom triples whose generator and injector do not match.
CheckConfigs == {Default("k1"), Angular("XSRF-TOKEN", "X-XSRF-TOKEN")}

Configs ==
    CheckConfigs \cup
    {New("k1", angularGenerator("XSRF-TOKEN"),
         defaultChecker("k1", "xsrf-cookie", "xsrf-token"), defaultInjector),
     New("k1", defaultGenerator("k1", "xsrf-cookie"),
         angularChecker("XSRF-TOKEN", "X-XSRF-TOKEN"), angularInjector)}

(***************************************************************************)
(* Actions                                                                 *)
(***************************************************************************)
\* Variant: every rejection is written as Forbidden.
BeforeAlwaysForbidden ==
    /\ pc = "before"
    /\ code' = Check(it.c, r, now)
    /\ IF code' # StatusOK
       THEN /\ w' = WriteError(w, StatusForbidden)
            /\ ret' = "WriteError"
            /\ pc' = "done"
       ELSE /\ w' = w
            /\ ret' = "NotWritten"
            /\ pc' = "handler"
    /\ UNCHANGED <<it, now, jar, page, r, resp, resp0, data, err, handled>>
    /\ UNCHANGED <<reqs, issued>>

\* Variant: the cookie of the page served last stands in for the request's.
BeforeCachedCookie ==
    /\ pc = "before"
    /\ code' =
         Check(it.c,
               IF page.cookie = Absent THEN r
               ELSE [r EXCEPT !.cookies =
                        [n \in CookieNames |-> page.cookie]],
               now)
    /\ IF code' # StatusOK
       THEN /\ w' = WriteError(w, code')
            /\ ret' = "WriteError"
            /\ pc' = "done"
       ELSE /\ w' = w
            /\ ret' = "NotWritten"
            /\ pc' = "handler"
    /\ UNCHANGED <<it, now, jar, page, r, resp, resp0, data, err, handled>>
    /\ UNCHANGED <<reqs, issued>>

\* Interceptor.Before
Before ==
    /\ pc = "before"
    /\ code' = Check(it.c, r, now)
    /\ IF code' # StatusOK
       THEN /\ w' = WriteError(w, code')
            /\ ret' = "WriteError"
            /\ pc' = "done"
       ELSE /\ w' = w
            /\ ret' = "NotWritten"
            /\ pc' = "handler"
    /\ UNCHANGED <<it, now, jar, page, r, resp, resp0, data, err, handled>>
    /\ UNCHANGED <<reqs, issued>>

\* The application handler: runs only when no interceptor has written the
\* response, and passes its Response to the commit phase.
Handle ==
    /\ pc = "handler"
    /\ ~w.written
    /\ \E rs \in Responses : resp' = rs /\ resp0' = rs
    /\ handled' = TRUE
    /\ pc' = "commit"
    /\ UNCHANGED <<it, now, jar, page, r, w, data, code, err, ret>>
    /\ UNCHANGED <<reqs, issued>>

\* Interceptor.Commit, on the request, writer and response of the pipeline.
CommitCall ==
    /\ pc = "commit"
    /\ \E rnd \in RandOutcomes, scOK \in BOOLEAN :
        LET gen == Generate(it.g, r, now, rnd)
            inj == Inject(it.i, resp, w, gen.data, scOK)
        IN /\ data' = gen.data
           /\ IF gen.err # "nil"
              THEN /\ err' = gen.err
                   /\ w' = WriteError(w, StatusInternalServerError)
                   /\ resp' = resp
                   /\ ret' = "WriteError"
              ELSE IF inj.err # "nil"
              THEN /\ err' = inj.err
                   /\ w' = WriteError(inj.w, StatusInternalServerError)
                   /\ resp' = inj.resp
                   /\ ret' = "WriteError"
              ELSE /\ err' = "nil"
                   /\ w' = inj.w
                   /\ resp' = inj.resp
                   /\ ret' = "Result"
    /\ pc' = "done"
    /\ UNCHANGED <<it, now, jar, page, r, resp0, code, handled>>

\* Interceptor.Commit
Commit == CommitCall /\ UNCHANGED <<reqs, issued>>

\* The status the client sees: the error written, else the handler's 200.
ClientStatus == IF w.written THEN w.status ELSE StatusOK

RECURSIVE StoreCookies(_, _)
\* The browser stores the cookies of the Set-Cookie headers, in order.
StoreCookies(j, cs) ==
    IF cs = <<>> THEN j
    ELSE StoreCookies([j EXCEPT ![Head(cs).name] = Head(cs).value], Tail(cs))

\* The client builds a request: its cookies are those of the jar; the form
\* field carries nothing, the empty string or the token of the page it
\* holds; the header carries nothing or an identifier.
Send ==
    /\ pc = "idle"
    /\ \E m \in Methods, p \in Paths, b \in Bodies,
          tok \in {Missing, "", page.token}, hd \in CookieValues :
        /\ b = "other" => tok = Missing
        /\ r' = [method |-> m, path |-> p, cookies |-> jar, body |-> b,
                 form |-> [k \in FormKeys |-> tok],
                 header |-> [h \in HeaderNames |-> hd]]
    /\ w' = NewResponseWriter
    /\ pc' = "before"
    /\ UNCHANGED <<it, now, jar, page, resp, resp0, data, code, err, ret>>
    /\ UNCHANGED <<handled, reqs, issued>>

\* The client receives the response: it stores the cookies set, and keeps
\* the token a served template page was rendered with.
Receive ==
    /\ pc = "done"
    /\ jar' = StoreCookies(jar, w.cookies)
    /\ page' =
         IF ClientStatus = StatusOK /\ resp.type = "TemplateResponse"
         THEN [token |-> resp.FuncMap["XSRFToken"], path |-> r.path,
               cookie |-> IF w.cookies = <<>> THEN Absent
                          ELSE w.cookies[1].value,
               time |-> now]
         ELSE page
    /\ r' = NoRequest
    /\ w' = NewResponseWriter
    /\ resp' = NoResponse
    /\ resp0' = NoResponse
    /\ data' = NilData
    /\ code' = 0
    /\ err' = "nil"
    /\ ret' = ""
    /\ handled' = FALSE
    /\ pc' = "idle"
    /\ UNCHANGED <<it, now, reqs, issued>>

\* Time passes between requests.
Tick ==
    /\ pc = "idle"
    /\ now < MaxTime
    /\ now' = now + 1
    /\ UNCHANGED
         <<it, jar, page, r, w, resp, resp0, data, code, err, ret, handled,
           pc, reqs, issued>>

\* The client's cookies expire or the client discards them.
Discard ==
    /\ pc = "idle"
    /\ jar # EmptyJar
    /\ jar' = EmptyJar
    /\ UNCHANGED
         <<it, now, page, r, w, resp, resp0, data, code, err, ret, handled,
           pc, reqs, issued>>

(***************************************************************************)
(* Specifications                                                          *)
(***************************************************************************)
\* A client with an empty cookie jar talking to one interceptor.
Init ==
    /\ it \in Configs
    /\ now = 0
    /\ jar = EmptyJar
    /\ page = NoPage
    /\ r = NoRequest
    /\ w = NewResponseWriter
    /\ resp = NoResponse
    /\ resp0 = NoResponse
    /\ data = NilData
    /\ code = 0
    /\ err = "nil"
    /\ ret = ""
    /\ handled = FALSE
    /\ pc = "idle"
    /\ reqs = <<>>
    /\ issued = {}

Next == Send \/ Before \/ Handle \/ Commit \/ Receive \/ Tick \/ Discard

Spec == Init /\ [][Next]_vars

\* Check as a function of the request: any request, at any time, handed to
\* Before of the Default or the Angular interceptor.
InitCheck ==
    /\ it \in CheckConfigs
    /\ now \in Times
    /\ r \in Requests
    /\ jar = r.cookies
    /\ page = NoPage
    /\ w = NewResponseWriter
    /\ resp = NoResponse
    /\ resp0 = NoResponse
    /\ data = NilData
    /\ code = 0
    /\ err = "nil"
    /\ ret = ""
    /\ handled = FALSE
    /\ pc = "before"
    /\ reqs = <<>>
    /\ issued = {}

NextCheck == Before

SpecCheck == InitCheck /\ [][NextCheck]_vars

\* Several requests served at once by one interceptor.  Each has its own
\* request, writer, response and generated data; the interceptor and the
\* clock are shared.
Slots == 1 .. NumReqs

MkRequest(m, p, c, tok, hd) ==
    [method |-> m, path |-> p, cookies |-> [n \in CookieNames |-> c],
     body |-> IF tok = Missing THEN "other" ELSE "urlencoded",
     form |-> [k \in FormKeys |-> tok],
     header |-> [h \in HeaderNames |-> hd]]

\* The requests that are in flight together: page loads with and without
\* the session cookie, a POST with valid proof, a POST without cookie.
ConcRequests ==
    {MkRequest("GET", p, c, Missing, "") :
        p \in Paths, c \in {Absent, "s1"}} \cup
    {MkRequest("POST", "/a", "s1",
               generateTokenAtTime("k1", "s1", "/a", 0), "s1"),
     MkRequest("POST", "/b", Absent, Missing, "")}

NewSlot(q) ==
    [pc |-> "before", r |-> q, w |-> NewResponseWriter,
     resp0 |-> NoResponse, resp |-> NoResponse, data |-> NilData,
     code |-> 0, err |-> "nil"]

\* Interceptor.Before for request i
BeforeC(i) ==
    /\ reqs[i].pc = "before"
    /\ LET q == reqs[i]
           c == Check(it.c, q.r, now)
       IN reqs' = [reqs EXCEPT ![i] =
                     IF c # StatusOK
                     THEN [q EXCEPT !.code = c, !.w = WriteError(q.w, c),
                                    !.pc = "done"]
                     ELSE [q EXCEPT !.code = c, !.pc = "handler"]]
    /\ UNCHANGED <<it, now, jar, page, r, w, resp, resp0, data, code, err>>
    /\ UNCHANGED <<ret, handled, pc, issued>>

\* The application handler for request i
HandleC(i) ==
    /\ reqs[i].pc = "handler"
    /\ ~reqs[i].w.written
    /\ \E rs \in Responses :
        reqs' = [reqs EXCEPT ![i].resp0 = rs, ![i].resp = rs,
                             ![i].pc = "commit"]
    /\ UNCHANGED <<it, now, jar, page, r, w, resp, resp0, data, code, err>>
    /\ UNCHANGED <<ret, handled, pc, issued>>

\* Variant: the injector keeps the token in a field all requests share, so
\* the function bound returns the token generated last.
CommitCSharedToken(i) ==
    /\ reqs[i].pc = "commit"
    /\ \E rnd \in RandOutcomes, scOK \in BOOLEAN :
        LET q == reqs[i]
            gen == Generate(it.g, q.r, now, rnd)
            others == {j \in Slots \ {i} : reqs[j].data.type = "defaultData"}
            shared == IF gen.err = "nil" /\ gen.data.type = "defaultData"
                         /\ others # {}
                      THEN [gen.data EXCEPT !.token =
                              reqs[CHOOSE j \in others : TRUE].data.token]
                      ELSE gen.data
            inj == Inject(it.i, q.resp, q.w, shared, scOK)
        IN reqs' = [reqs EXCEPT ![i] =
                     IF gen.err # "nil"
                     THEN [q EXCEPT !.data = gen.data, !.err = gen.err,
                             !.w = WriteError(q.w, StatusInternalServerError),
                             !.pc = "done"]
                     ELSE IF inj.err # "nil"
                     THEN [q EXCEPT !.data = gen.data, !.err = inj.err,
                             !.w = WriteError(inj.w,
                                              StatusInternalServerError),
                             !.resp = inj.resp, !.pc = "done"]
                     ELSE [q EXCEPT !.data = gen.data, !.err = "nil",
                             !.w = inj.w, !.resp = inj.resp, !.pc = "done"]]
    /\ UNCHANGED <<it, now, jar, page, r, w, resp, resp0, data, code, err>>
    /\ UNCHANGED <<ret, handled, pc, issued>>

\* Interceptor.Commit for request i
CommitC(i) ==
    /\ reqs[i].pc = "commit"
    /\ \E rnd \in RandOutcomes, scOK \in BOOLEAN :
        LET q == reqs[i]
            gen == Generate(it.g, q.r, now, rnd)
            inj == Inject(it.i, q.resp, q.w, gen.data, scOK)
        IN reqs' = [reqs EXCEPT ![i] =
                     IF gen.err # "nil"
                     THEN [q EXCEPT !.data = gen.data, !.err = gen.err,
                             !.w = WriteError(q.w, StatusInternalServerError),
                             !.pc = "done"]
                     ELSE IF inj.err # "nil"
                     THEN [q EXCEPT !.data = gen.data, !.err = inj.err,
                             !.w = WriteError(inj.w,
                                              StatusInternalServerError),
                             !.resp = inj.resp, !.pc = "done"]
                     ELSE [q EXCEPT !.data = gen.data, !.err = "nil",
                             !.w = inj.w, !.resp = inj.resp, !.pc = "done"]]
    /\ UNCHANGED <<it, now, jar, page, r, w, resp, resp0, data, code, err>>
    /\ UNCHANGED <<ret, handled, pc, issued>>

InitConc ==
    /\ it \in CheckConfigs
    /\ now = 0
    /\ reqs \in [Slots -> {NewSlot(q) : q \in ConcRequests}]
    /\ jar = EmptyJar
    /\ page = NoPage
    /\ r = NoRequest
    /\ w = NewResponseWriter
    /\ resp = NoResponse
    /\ resp0 = NoResponse
    /\ data = NilData
    /\ code = 0
    /\ err = "nil"
    /\ ret = ""
    /\ handled = FALSE
    /\ pc = "idle"
    /\ issued = {}

NextConc == \E i \in Slots : BeforeC(i) \/ HandleC(i) \/ CommitC(i)

SpecConc == InitConc /\ [][NextConc]_vars

\* Clients that do not hold the key.  issued is the history of the tokens
\* defaultGenerator.Generate has derived: session identifier, path, token.
\* A client sends any cookie and, as token, a string it can build without the
\* key (nothing, the empty string, a malformed string, a token made with
\* another key) or a token the server has issued.
ForgedTokens(c, p) ==
    {Missing, "", "garbage"} \cup
    {generateTokenAtTime(k, IF c = Absent THEN "" ELSE c, p, now) :
        k \in Keys \ {it.secretAppKey}}

AdvSend ==
    /\ pc = "idle"
    /\ \E m \in {"GET", "POST"}, p \in Paths, c \in SessionIDs \cup {Absent},
          b \in Bodies :
        \E tok \in ForgedTokens(c, p) \cup {e.token : e \in issued} :
            /\ b = "other" => tok = Missing
            /\ r' = [method |-> m, path |-> p,
                     cookies |-> [n \in CookieNames |->
                                    IF n = it.g.cookieIDKey THEN c
                                    ELSE Absent],
                     body |-> b,
                     form |-> [k \in FormKeys |-> tok],
                     header |-> [h \in HeaderNames |-> ""]]
    /\ w' = NewResponseWriter
    /\ pc' = "before"
    /\ UNCHANGED <<it, now, jar, page, resp, resp0, data, code, err, ret>>
    /\ UNCHANGED <<handled, reqs, issued>>

\* Interceptor.Commit; the token Generate derived enters the history.
AdvCommit ==
    /\ CommitCall
    /\ issued' =
         IF data'.type = "defaultData"
         THEN issued \cup {[sid |-> data'.cookieID.value, path |-> r.path,
                            token |-> data'.token]}
         ELSE issued
    /\ Cardinality(issued') <= MaxIssued
    /\ UNCHANGED reqs

\* The response leaves; the next request can come.
AdvReceive ==
    /\ pc = "done"
    /\ r' = NoRequest
    /\ w' = NewResponseWriter
    /\ resp' = NoResponse
    /\ resp0' = NoResponse
    /\ data' = NilData
    /\ code' = 0
    /\ err' = "nil"
    /\ ret' = ""
    /\ handled' = FALSE
    /\ pc' = "idle"
    /\ UNCHANGED <<it, now, jar, page, reqs, issued>>

InitAdv ==
    /\ it = Default("k1")
    /\ now = 0
    /\ jar = EmptyJar
    /\ page = NoPage
    /\ r = NoRequest
    /\ w = NewResponseWriter
    /\ resp = NoResponse
    /\ resp0 = NoResponse
    /\ data = NilData
    /\ code = 0
    /\ err = "nil"
    /\ ret = ""
    /\ handled = FALSE
    /\ pc = "idle"
    /\ reqs = <<>>
    /\ issued = {}

NextAdv == AdvSend \/ Before \/ Handle \/ AdvCommit \/ AdvReceive \/ Tick

SpecAdv == InitAdv /\ [][NextAdv]_vars

TypeOK ==
    /\ it \in Configs
    /\ now \in Times
    /\ pc \in {"idle", "before", "handler", "commit", "done"}
    /\ code \in {0, StatusOK, StatusBadRequest, StatusUnauthorized,
                 StatusForbidden}
    /\ handled \in BOOLEAN

(***************************************************************************)
(* Properties                                                              *)
(***************************************************************************)
\* Before has run for r: code is the status Check returned for it.
Checked == pc \in {"handler", "commit", "done"}

SafeMethod == r.method \in {"GET", "HEAD", "OPTIONS"}

\* The name of the session cookie the configured Checker looks for.
CheckerCookieName ==
    IF it.c.type = "defaultChecker" THEN it.c.cookieIDKey
    ELSE it.c.tokenCookieName

\* The request carries the session cookie.
SessionCookiePresent == r.cookies[CheckerCookieName] # Absent

\* The token field of the request's form; Missing when the body is no form
\* or the form has no such field.
FormToken ==
    IF r.body \in {"urlencoded", "multipart"} THEN r.form["xsrf-token"]
    ELSE Missing

\* The value of the header the Angular checker is configured with.
HeaderValue == r.header["X-XSRF-TOKEN"]

\* C1: with either checker, a GET, HEAD or OPTIONS request is answered OK by
\* Check, whatever cookie, token, header or body it carries.
C1_SafeMethodsPass == (Checked /\ SafeMethod) => code = StatusOK

\* A HEAD request with no cookie, no form and no header passed the Angular
\* checker.
C1_Witness ==
    /\ Checked
    /\ it.c.type = "angularChecker"
    /\ r.method = "HEAD"
    /\ r.cookies = EmptyJar
    /\ r.body = "other"
    /\ HeaderValue = ""
    /\ code = StatusOK

\* C2: for a method other than GET, HEAD, OPTIONS the Default checker answers
\* OK exactly when the session cookie is present and the form carries a token
\* valid for (secret key, cookie value, path); otherwise a non-OK status.
C2_DefaultAcceptsIffValid ==
    (Checked /\ it.c.type = "defaultChecker" /\ ~SafeMethod) =>
        /\ code = StatusOK <=>
             /\ SessionCookiePresent
             /\ FormToken # Missing
             /\ validTokenAtTime(FormToken, it.c.secretAppKey,
                                 r.cookies[CheckerCookieName], r.path, now)
        /\ code \in {StatusOK, StatusBadRequest, StatusUnauthorized,
                     StatusForbidden}

\* A POST with the cookie and a valid token in a multipart form was accepted.
C2_Witness ==
    /\ Checked
    /\ it.c.type = "defaultChecker"
    /\ r.method = "POST"
    /\ r.body = "multipart"
    /\ SessionCookiePresent
    /\ code = StatusOK

\* C3 as stated: for a method other than GET, HEAD, OPTIONS the Angular
\* checker answers OK exactly when the session cookie is present and the
\* header value equals the cookie value.
C3_AngularAcceptsIffEqual ==
    (Checked /\ it.c.type = "angularChecker" /\ ~SafeMethod) =>
        (code = StatusOK <=>
            /\ SessionCookiePresent
            /\ HeaderValue = r.cookies[CheckerCookieName])

\* C3, amended: ... exactly when the session cookie is present, the header
\* is not empty and the header value equals the cookie value.
C3_AngularAcceptsIffNonEmptyEqual ==
    (Checked /\ it.c.type = "angularChecker" /\ ~SafeMethod) =>
        (code = StatusOK <=>
            /\ SessionCookiePresent
            /\ HeaderValue # ""
            /\ HeaderValue = r.cookies[CheckerCookieName])

\* A DELETE whose header echoes the cookie was accepted.
C3_Witness ==
    /\ Checked
    /\ it.c.type = "angularChecker"
    /\ r.method = "DELETE"
    /\ SessionCookiePresent
    /\ HeaderValue = r.cookies[CheckerCookieName]
    /\ code = StatusOK

\* C10: with either checker, a request with a method other than GET, HEAD,
\* OPTIONS and without the session cookie is answered Forbidden, whatever
\* its body, token field and header are.
C10_NoCookieForbidden ==
    (Checked /\ ~SafeMethod /\ ~SessionCookiePresent) =>
        code = StatusForbidden

\* A POST without cookie whose body is no form was answered Forbidden by the
\* Default checker, not Bad Request.
C10_Witness ==
    /\ Checked
    /\ it.c.type = "defaultChecker"
    /\ r.method = "POST"
    /\ ~SessionCookiePresent
    /\ r.body = "other"
    /\ code = StatusForbidden

\* Commit has run for r.
Committed == pc = "done" /\ handled

\* The name of the session cookie the configured Generator reads and mints.
GeneratorCookieName ==
    IF it.g.type = "defaultGenerator" THEN it.g.cookieIDKey
    ELSE it.g.tokenCookieName

\* The cookie in the generated data.
DataCookie ==
    IF data.type = "defaultData" THEN data.cookieID ELSE data.tokCookie

\* The token is inside its validity window at time t.
InWindow(issue, t) == issue <= t /\ t - issue < Timeout

\* The request is a POST that carries the cookie the last served page came
\* with and, in its form, the token that page was rendered with.
FollowUpPost ==
    /\ Checked
    /\ it = Default("k1")
    /\ r.method = "POST"
    /\ page.cookie # Absent
    /\ page.token # Missing
    /\ r.cookies["xsrf-cookie"] = page.cookie
    /\ FormToken = page.token

\* First half of C4: a committed request without session cookie got a newly
\* minted cookie set, and its template response the token for that cookie.
FirstRequestIssues ==
    (/\ Committed
     /\ it = Default("k1")
     /\ r.cookies["xsrf-cookie"] = Absent
     /\ err = "nil") =>
        /\ Len(w.cookies) = 1
        /\ w.cookies[1].name = "xsrf-cookie"
        /\ w.cookies[1].value \in SessionIDs
        /\ resp.type = "TemplateResponse" =>
             /\ resp.FuncMap["XSRFToken"] \notin {Missing, "", "stub"}
             /\ resp.FuncMap["XSRFToken"] =
                  generateTokenAtTime("k1", w.cookies[1].value, r.path, now)

C5_TokenRoundTrip ==
    (/\ Checked
     /\ it.c.type = "defaultChecker"
     /\ it.g.type = "defaultGenerator"
     /\ ~SafeMethod
     /\ SessionCookiePresent) =>
        \A k \in Keys, s \in CookieValues, p \in Paths, t \in Times :
            FormToken = generateTokenAtTime(k, s, p, t) =>
                (code = StatusOK <=>
                    /\ k = it.g.secretAppKey
                    /\ s = r.cookies[CheckerCookieName]
                    /\ p = r.path
                    /\ InWindow(t, now))

\* A token generated one tick earlier for the request's cookie and path
\* under the interceptor's key was accepted.
C5_Witness ==
    /\ Checked
    /\ it = Default("k1")
    /\ r.method = "POST"
    /\ now >= 1
    /\ FormToken =
         generateTokenAtTime("k1", r.cookies["xsrf-cookie"], r.path, now - 1)
    /\ code = StatusOK

\* C6: in both strategies, when the request carries the session cookie the
\* generated data has the flag unset and holds the request's own cookie, and
\* Commit sets no cookie; the flag is set exactly when the request carried no
\* session cookie, and then the cookie holds a newly minted identifier.
C6_IdempotentIssuance ==
    (Committed /\ data.type # "nil") =>
        /\ data.setCookie <=> r.cookies[GeneratorCookieName] = Absent
        /\ r.cookies[GeneratorCookieName] # Absent =>
             /\ DataCookie.name = GeneratorCookieName
             /\ DataCookie.value = r.cookies[GeneratorCookieName]
             /\ w.cookies = <<>>
        /\ data.setCookie => DataCookie.value \in SessionIDs

\* A request carrying the cookie was committed by the Default interceptor
\* and no cookie was set.
C6_Witness ==
    /\ Committed
    /\ data.type = "defaultData"
    /\ r.cookies["xsrf-cookie"] \in SessionIDs
    /\ ~data.setCookie
    /\ err = "nil"
    /\ w.cookies = <<>>

\* C7: once the client holds a session identifier, every step other than the
\* client discarding its cookies leaves it as it is, whether the request was
\* accepted or rejected; and no response to a request that carried the
\* session cookie sets a cookie.
C7_SessionIDStable ==
    /\ [](pc = "done" /\ r.cookies[GeneratorCookieName] # Absent =>
            w.cookies = <<>>)
    /\ [][Discard \/ \A n \in CookieNames :
                        jar[n] # Absent => jar'[n] = jar[n]]_vars

\* A request carrying the identifier was rejected with Unauthorized and the
\* response sets no cookie.
C7_Witness ==
    /\ pc = "done"
    /\ r.cookies[GeneratorCookieName] \in SessionIDs
    /\ jar = r.cookies
    /\ code = StatusUnauthorized
    /\ w.cookies = <<>>

\* C8: when Check returns a status other than OK, Before writes exactly that
\* status and the application handler does not run; when Check returns OK,
\* Before returns NotWritten and leaves the response untouched.
C8_BeforeShortCircuits ==
    /\ (Checked /\ Check(it.c, r, now) # StatusOK) =>
          /\ w.written
          /\ w.status = Check(it.c, r, now)
          /\ ret = "WriteError"
          /\ ~handled
          /\ pc = "done"
    /\ (pc = "handler" /\ Check(it.c, r, now) = StatusOK) =>
          /\ ret = "NotWritten"
          /\ w = NewResponseWriter
    /\ handled => Check(it.c, r, now) = StatusOK

\* A request was rejected with Unauthorized and that status written.
C8_Witness ==
    /\ Checked
    /\ code = StatusUnauthorized
    /\ w.written
    /\ w.status = StatusUnauthorized
    /\ ~handled

\* C9: Commit ends with the Internal Server Error status exactly when
\* Generate or Inject returned an error; then no cookie has been set on the
\* response and the function map is as the handler left it.
C9_CommitErrors ==
    Committed =>
        /\ err # "nil" <=> w.written
        /\ w.written => w.status = StatusInternalServerError
        /\ err # "nil" =>
             /\ ret = "WriteError"
             /\ w.cookies = <<>>
             /\ resp \in Responses
        /\ data.type = "nil" <=> err = "crypto/rand.Read"
        /\ (data.type # "nil" /\ it.g.type = "angularGenerator"
              /\ it.i.type = "defaultInjector") =>
             err = "invalid data received"
        /\ (data.type # "nil" /\ it.g.type = "defaultGenerator"
              /\ it.i.type = "angularInjector") =>
             err = "invalid data received"

\* SetCookie failed on a template response of the Default interceptor: the
\* status is Internal Server Error, no cookie, no binding.
C9_Witness ==
    /\ Committed
    /\ it = Default("k1")
    /\ err = "SetCookie"
    /\ resp.type = "TemplateResponse"
    /\ w.status = StatusInternalServerError

\* A request the Default checker has checked, with a method other than GET,
\* HEAD, OPTIONS and with the session cookie.
DefaultChecked ==
    /\ Checked
    /\ it.c.type = "defaultChecker"
    /\ ~SafeMethod
    /\ SessionCookiePresent

\* The same for the Angular checker.
AngularChecked ==
    /\ Checked
    /\ it.c.type = "angularChecker"
    /\ ~SafeMethod
    /\ SessionCookiePresent

FormBody == r.body \in {"urlencoded", "multipart"}

\* The form's token validates for the checker's key, the request's cookie
\* value and the request's path.
FormTokenValid ==
    /\ FormToken # Missing
    /\ validTokenAtTime(FormToken, it.c.secretAppKey,
                        r.cookies[CheckerCookieName], r.path, now)

\* C11: Default strategy, session cookie present, form parsed: a token field
\* that is missing or empty is answered Unauthorized, not Forbidden.
C11_EmptyTokenUnauthorized ==
    (DefaultChecked /\ FormBody /\ FormToken \in {Missing, ""}) =>
        code = StatusUnauthorized

\* A POST with the cookie and an empty token field in a URL-encoded form was
\* answered Unauthorized.
C11_Witness ==
    /\ DefaultChecked
    /\ r.method = "POST"
    /\ r.body = "urlencoded"
    /\ FormToken = ""
    /\ code = StatusUnauthorized

\* C12: Default strategy, session cookie present: a token generated for
\* another path, another session identifier or under another key than those
\* of the request is answered Forbidden.
C12_ForeignTokenForbidden ==
    DefaultChecked =>
        \A k \in Keys, s \in CookieValues, p \in Paths, t \in Times :
            (/\ FormToken = generateTokenAtTime(k, s, p, t)
             /\ \/ k # it.c.secretAppKey
                \/ s # r.cookies[CheckerCookieName]
                \/ p # r.path) =>
                code = StatusForbidden

\* A token generated now, under the key and for the cookie of the request
\* but for the other path, was answered Forbidden.
C12_Witness ==
    /\ DefaultChecked
    /\ r.path = "/a"
    /\ FormToken =
         generateTokenAtTime("k1", r.cookies["xsrf-cookie"], "/b", now)
    /\ code = StatusForbidden

\* C13: Lightweight strategy, session cookie present: a header that is empty
\* or differs from the cookie value is answered Unauthorized.
C13_HeaderMismatchUnauthorized ==
    (AngularChecked /\ (HeaderValue = ""
                          \/ HeaderValue # r.cookies[CheckerCookieName])) =>
        code = StatusUnauthorized

\* A header holding another identifier than the cookie was answered
\* Unauthorized.
C13_Witness ==
    /\ AngularChecked
    /\ HeaderValue = "s1"
    /\ r.cookies["XSRF-TOKEN"] = "s2"
    /\ code = StatusUnauthorized

\* The proof of the request is not there: the token field is missing or
\* empty (Default), the header is empty (Lightweight).
ProofAbsent ==
    IF it.c.type = "defaultChecker"
    THEN FormBody /\ FormToken \in {Missing, ""}
    ELSE HeaderValue = ""

\* A proof is there and fails validation: the HMAC check (Default), the
\* comparison with the cookie value (Lightweight).
ProofInvalid ==
    IF it.c.type = "defaultChecker"
    THEN FormBody /\ FormToken \notin {Missing, ""} /\ ~FormTokenValid
    ELSE HeaderValue # "" /\ HeaderValue # r.cookies[CheckerCookieName]

\* C14 as stated: in both strategies a request is answered Forbidden when
\* the session cookie is missing or a proof that is there fails validation,
\* and Unauthorized only when the proof is not there.
C14_Taxonomy ==
    (Checked /\ ~SafeMethod) =>
        /\ ~SessionCookiePresent => code = StatusForbidden
        /\ (SessionCookiePresent /\ ProofInvalid) => code = StatusForbidden
        /\ code = StatusUnauthorized => (SessionCookiePresent /\ ProofAbsent)

\* C14, amended: a missing session cookie is answered Forbidden in both
\* strategies.  Default: a non-empty token that fails validation is answered
\* Forbidden, and Unauthorized is returned only for a missing or empty token
\* field.  Lightweight: Forbidden is returned only for a missing cookie; a
\* header that is empty or differs from the cookie value is answered
\* Unauthorized.
C14_TaxonomyPerStrategy ==
    (Checked /\ ~SafeMethod) =>
        /\ ~SessionCookiePresent => code = StatusForbidden
        /\ it.c.type = "defaultChecker" =>
             /\ (SessionCookiePresent /\ ProofInvalid) =>
                    code = StatusForbidden
             /\ code = StatusUnauthorized =>
                    (SessionCookiePresent /\ ProofAbsent)
        /\ it.c.type = "angularChecker" =>
             /\ code = StatusForbidden => ~SessionCookiePresent
             /\ (SessionCookiePresent /\ (ProofAbsent \/ ProofInvalid)) =>
                    code = StatusUnauthorized

\* The Angular checker answered Unauthorized to a header that is not empty
\* and differs from the cookie value.
C14_Witness ==
    /\ AngularChecked
    /\ r.method = "POST"
    /\ ProofInvalid
    /\ code = StatusUnauthorized

\* C15: Default strategy, session cookie present: Bad Request is returned
\* exactly when the body is neither a URL-encoded nor a multipart form; a
\* multipart form gets the status the same fields get in a URL-encoded form.
C15_BadRequestIffNoForm ==
    DefaultChecked =>
        /\ code = StatusBadRequest <=> ~FormBody
        /\ r.body = "multipart" =>
             /\ (FormToken \in {Missing, ""} => code = StatusUnauthorized)
             /\ (FormToken \notin {Missing, ""} =>
                    code = IF FormTokenValid THEN StatusOK
                           ELSE StatusForbidden)
             /\ code = Check(it.c, [r EXCEPT !.body = "urlencoded"], now)

\* A multipart form with a token that does not validate was answered
\* Forbidden.
C15_Witness ==
    /\ DefaultChecked
    /\ r.body = "multipart"
    /\ FormToken \notin {Missing, ""}
    /\ code = StatusForbidden

\* C16: a cookie minted by the Default generator is SameSite=Strict and
\* HTTP-only; one minted by the Angular generator is SameSite=Strict, Path=/,
\* Max-Age=86400 and not HTTP-only; a cookie that came with the request is
\* passed on as it was read.  A minted cookie is set on the response as is.
C16_CookieAttributes ==
    (Committed /\ data.type # "nil") =>
        /\ (data.setCookie /\ data.type = "defaultData") =>
             /\ DataCookie.sameSite = "Strict"
             /\ DataCookie.httpOnly
        /\ (data.setCookie /\ data.type = "angularData") =>
             /\ DataCookie.sameSite = "Strict"
             /\ DataCookie.path = "/"
             /\ DataCookie.maxAge = 86400
             /\ ~DataCookie.httpOnly
        /\ ~data.setCookie =>
             DataCookie = ParsedCookie(GeneratorCookieName,
                                       r.cookies[GeneratorCookieName])
        /\ (data.setCookie /\ err = "nil") => w.cookies = <<DataCookie>>

\* The Angular interceptor minted a cookie and set it on the response.
C16_Witness ==
    /\ Committed
    /\ data.type = "angularData"
    /\ data.setCookie
    /\ err = "nil"
    /\ Len(w.cookies) = 1
    /\ w.cookies[1].maxAge = 86400

\* The session identifier of the committed request: the value of the cookie
\* it carried, else the one minted for it.
RequestSessionID ==
    IF r.cookies[GeneratorCookieName] # Absent
    THEN r.cookies[GeneratorCookieName]
    ELSE DataCookie.value

OwnFields ==
    [method |-> r.method,
     path |-> r.path,
     cookies |-> [n \in CookieNames |->
                    IF n = CheckerCookieName THEN r.cookies[n] ELSE Absent],
     body |-> IF it.c.type = "defaultChecker" THEN r.body ELSE "other",
     form |-> IF it.c.type = "defaultChecker" THEN r.form
              ELSE NoRequest.form,
     header |-> IF it.c.type = "angularChecker" THEN r.header
                ELSE NoRequest.header]

\* C18: whatever requests were accepted or rejected before, and whatever the
\* client holds from them, the status of a request is the one Check gives
\* for its own fields, the current time and the configuration.
C18_NoCarryOver == Checked => code = Check(it.c, OwnFields, now)

\* After a page was served with a new cookie, a POST without cookie was
\* answered Forbidden.
C18_Witness ==
    /\ Checked
    /\ page.cookie # Absent
    /\ r.method = "POST"
    /\ ~SessionCookiePresent
    /\ code = StatusForbidden

\* The session identifier of request i: the value of the cookie it carried,
\* else the one minted for it and set on its own response.
OwnSessionID(i) ==
    IF reqs[i].r.cookies[GeneratorCookieName] # Absent
    THEN reqs[i].r.cookies[GeneratorCookieName]
    ELSE reqs[i].w.cookies[1].value

\* Request i got what it gets when served alone: the status of Check for its
\* own request; a cookie set exactly when it carried none; the token of its
\* own session identifier and path bound in its own template response.
ServedAsAlone(i) ==
    LET q == reqs[i] IN
    /\ q.pc \in {"handler", "commit", "done"} =>
         /\ q.code = Check(it.c, q.r, now)
         /\ q.code # StatusOK =>
              /\ q.pc = "done"
              /\ q.w = WriteError(NewResponseWriter, q.code)
              /\ q.resp = NoResponse
    /\ (q.pc = "done" /\ q.code = StatusOK) =>
         /\ q.w.cookies # <<>> => q.r.cookies[GeneratorCookieName] = Absent
         /\ q.err = "nil" =>
              /\ ~q.w.written
              /\ q.w.cookies # <<>> <=>
                   q.r.cookies[GeneratorCookieName] = Absent
              /\ q.w.cookies # <<>> =>
                   /\ q.w.cookies = <<IF q.data.type = "defaultData"
                                      THEN q.data.cookieID
                                      ELSE q.data.tokCookie>>
                   /\ q.w.cookies[1].name = GeneratorCookieName
         /\ q.err # "nil" => q.w.cookies = <<>> /\ q.resp = q.resp0
         /\ (q.err = "nil" /\ it.i.type = "defaultInjector"
               /\ q.resp0.type = "TemplateResponse") =>
              q.resp =
                [q.resp0 EXCEPT !.FuncMap["XSRFToken"] =
                    generateTokenAtTime(it.secretAppKey, OwnSessionID(i),
                                        q.r.path, now)]
         /\ (it.i.type # "defaultInjector"
               \/ q.resp0.type # "TemplateResponse") => q.resp = q.resp0

\* C19: under every interleaving of Before and Commit of the requests in
\* flight, each request is served as when it is alone, and the interceptor
\* (its key and its Checker, Generator and Injector) never changes.
C19_ConcurrentRequestsIndependent ==
    /\ [](\A i \in Slots : ServedAsAlone(i))
    /\ [][it' = it]_vars

\* While request 1 waits between Before and Commit, request 2, for another
\* path and another session, has got its own token bound.
C19_Witness ==
    /\ it = Default("k1")
    /\ reqs[1].pc = "commit"
    /\ reqs[2].pc = "done"
    /\ reqs[2].err = "nil"
    /\ reqs[2].resp0.type = "TemplateResponse"
    /\ reqs[1].r.path # reqs[2].r.path
    /\ reqs[1].r.cookies # reqs[2].r.cookies
    /\ reqs[2].resp.FuncMap["XSRFToken"] =
         generateTokenAtTime("k1", OwnSessionID(2), reqs[2].r.path, now)

\* C20: with the Default strategy and clients that do not hold the key,
\* every request of a non-state-preserving method that Check accepts carries
\* a token Generate has derived before, for the session identifier of the
\* request's cookie and for the request's path.
C20_AcceptedTokenWasIssued ==
    (it.c.type = "defaultChecker" /\ Checked /\ ~SafeMethod
        /\ code = StatusOK) =>
      \E e \in issued :
          /\ e.token = FormToken
          /\ e.sid = r.cookies[CheckerCookieName]
          /\ e.path = r.path

\* A POST is accepted with an issued token, while a token issued for another
\* session or path is in the history too.
C20_Witness ==
    /\ Checked
    /\ r.method = "POST"
    /\ code = StatusOK
    /\ \E e \in issued : e.token = FormToken
    /\ \E e \in issued : e.token # FormToken

====
